---- MODULE Spec2Model ----
(***************************************************************************)
(* The WGPU command actor of components/webgpu/lib.rs: clients enqueue     *)
(* WebGPURequest messages on the inbound ipc channel through cloned        *)
(* senders, and one dedicated thread (WGPU::run) dequeues them one at a    *)
(* time, calls the wgpu-core backend and, for RequestAdapter,              *)
(* RequestDevice and Exit, answers on the channel carried by the message.  *)
(*                                                                         *)
(* The wgpu-core backend (self.global) and the ipc transport are external  *)
(* to the repository.  What a backend call does with an identifier that   *)
(* is not live, and whether a send finds its peer, is therefore chosen     *)
(* nondeterministically among the outcomes the call site allows.           *)
(***************************************************************************)
EXTENDS Integers, Sequences, FiniteSets, TLC

(* Bounds of the model. *)
MaxMsgs == 2
MaxLen == 3

Clients == {"c1", "c2"}

(* Bytes of the string payloads: a label is a sequence of bytes. *)
GoodString == <<97>>
NulString == <<97, 0, 98>>
Strings == {GoodString, NulString}

(* Option<T> is a sequence of length at most one. *)
None == <<>>
Some(x) == <<x>>

AdapterIds == {"A", "B"}
DeviceIds == {"d1"}
Handles == {"live", "stale", "unknown", "badtag"}

(* The arms of WGPU::run that only call the backend. *)
PlainKinds ==
    {"CommandEncoderFinish", "CopyBufferToBuffer", "CreateBindGroup",
     "CreateBindGroupLayout", "CreateCommandEncoder", "CreatePipelineLayout",
     "CreateShaderModule", "DestroyBuffer", "DestroyTexture", "RunComputePass",
     "RunRenderPass", "Submit", "UnmapBuffer"}

(* The arms that convert descriptor.label to a CString first. *)
LabelKinds == {"CreateBuffer", "CreateSampler", "CreateTexture", "CreateTextureView"}

(* A request: the variant and the fields of it that WGPU::run looks at.    *)
(*   handle       state of the routing identifier(s) the request names     *)
(*   text         label / entry_point / vertex_entry_point                 *)
(*   fragment_module, fragment_entry_point   Option fields                 *)
(*   ids          candidate adapter ids of RequestAdapter                  *)
(*   device_id    device id of RequestDevice                               *)
WebGPURequest(kind, handle, text, fm, fe, ids, dev) ==
    [kind |-> kind, handle |-> handle, text |-> text, fragment_module |-> fm,
     fragment_entry_point |-> fe, ids |-> ids, device_id |-> dev]

Simple(kind, handle) == WebGPURequest(kind, handle, <<>>, None, None, <<>>, "none")

(* Bytes on the channel that do not deserialize to a WebGPURequest. *)
Undecodable == Simple("Undecodable", "live")

(* The requests the clients choose from: every arm shape of WGPU::run with *)
(* well-formed and with malformed payloads.  Exit is sent by WebGPU::exit. *)
SentPlainKinds ==
    {"CommandEncoderFinish", "CopyBufferToBuffer", "DestroyBuffer",
     "DestroyTexture", "Submit", "UnmapBuffer"}

Requests ==
    {Simple(k, "live") : k \in SentPlainKinds}
    \cup {Simple("DestroyBuffer", "stale"), Simple("DestroyTexture", "badtag"),
          Simple("Submit", "unknown"), Simple("UnmapBuffer", "stale")}
    \cup {WebGPURequest(k, "live", s, None, None, <<>>, "none") : k \in LabelKinds, s \in Strings}
    \cup {WebGPURequest("CreateComputePipeline", "live", s, None, None, <<>>, "none") : s \in Strings}
    \cup {WebGPURequest("CreateRenderPipeline", "live", GoodString, None, None, <<>>, "none"),
          WebGPURequest("CreateRenderPipeline", "live", GoodString, Some("fs"), Some(GoodString), <<>>, "none"),
          WebGPURequest("CreateRenderPipeline", "live", GoodString, Some("fs"), None, <<>>, "none"),
          WebGPURequest("CreateRenderPipeline", "live", GoodString, Some("fs"), Some(NulString), <<>>, "none"),
          WebGPURequest("CreateRenderPipeline", "live", NulString, None, None, <<>>, "none")}
    \cup {WebGPURequest("RequestAdapter", "live", <<>>, None, None, ids, "none") :
             ids \in {<<>>, <<"A", "B">>}}
    \cup {WebGPURequest("RequestDevice", h, <<>>, None, None, <<>>, d) :
             h \in Handles, d \in DeviceIds}
    \cup {Undecodable}

(* The two channels WebGPU::new creates: (sender, receiver) read by the    *)
(* actor, and (script_sender, script_recv) read by the downstream consumer.*)
InboundChannel == "inbound"
ScriptChannel == "script"

NoMsg == [client |-> "none", seq |-> 0, req |-> Simple("none", "live")]

VARIABLES
    inbox,      \* the inbound ipc channel: messages sent and not yet received
    sent,       \* per client, the number of messages it has enqueued
    sendErrs,   \* number of sends that returned Err (receiver gone)
    pc,         \* position of the WGPU thread
    cur,        \* the message being dispatched (msg of the match)
    global,     \* self.global: "live" or "dropped"
    adapters,   \* self.adapters
    devices,    \* self.devices
    applied,    \* backend operations performed, in order, as <<client, seq>>
    failures,   \* backend calls whose error result was discarded
    replies,    \* sends made on reply channels of RequestAdapter / RequestDevice
    scriptMsgs, \* sends of WebGPUMsg::Exit made on script_sender
    acks,       \* sends made on the ack channel of an Exit
    warnings,   \* number of warn! entries written by run
    stopCause,  \* why run stopped: "none", "Exit", "NoAdapter", "RecvErr", "Panic"
    boot,       \* what WebGPU::new meets: the pref, both ipc::channel(), the spawn
    newResult,  \* what WebGPU::new returned
    sender,     \* self.sender: the channel the actor's own sender writes to
    exitOk,     \* number of WebGPU::exit calls that returned Ok(())
    exitErr,    \* number of WebGPU::exit calls that returned Err(..)
    invalid_adapters, \* self._invalid_adapters
    held,       \* the clients that have not dropped their handles
    box,        \* self of shrink_to_fit: a BoxContentSizes
    available_size,   \* the argument of shrink_to_fit
    fit         \* the outcome of the shrink_to_fit call

chanVars == <<inbox, sent, sendErrs>>
actorVars == <<pc, cur, global, adapters, devices, stopCause>>
obsVars == <<applied, failures, replies, scriptMsgs, acks, warnings>>
hostVars == <<boot, newResult, sender, exitOk, exitErr>>
otherVars == <<invalid_adapters, held>>
layoutVars == <<box, available_size, fit>>
vars == <<inbox, sent, sendErrs, pc, cur, global, adapters, devices, applied,
          failures, replies, scriptMsgs, acks, warnings, stopCause,
          boot, newResult, sender, exitOk, exitErr,
          invalid_adapters, held, box, available_size, fit>>

Key(m) == <<m.client, m.seq>>

(* The thread has left run: by return or by unwinding.  The receiver is a *)
(* field of self, so it is dropped exactly then. *)
Terminated == pc \in {"returned", "panicked"}
Running == ~Terminated

(* Number of sends attempted so far, by all clients. *)
Submitted == sendErrs + exitErr + sent["c1"] + sent["c2"]

(* The outcome of WebGPU::new: not called yet, None, or Some((WebGPU(h), _)). *)
NewPending == [state |-> "pending", handle |-> "none", warned |-> FALSE]
NewNone(warned) == [state |-> "None", handle |-> "none", warned |-> warned]
NewSome(h) == [state |-> "Some", handle |-> h, warned |-> FALSE]

BootOk == [pref |-> TRUE, chan1 |-> TRUE, chan2 |-> TRUE, spawn |-> TRUE]

(* The client handles c can send through: the one WebGPU::new returned     *)
(* (clients clone it), and the ones it received in delivered Ok replies to *)
(* its RequestAdapter requests.                                            *)
HandlesOf(c) ==
    (IF newResult.state = "Some" THEN {newResult.handle} ELSE {})
    \cup {replies[i].channel : i \in {j \in DOMAIN replies :
              /\ replies[j].result = "OkAdapter"
              /\ replies[j].delivered
              /\ replies[j].to[1] = c}}

(***************************************************************************)
(* BoxContentSizes::shrink_to_fit of components/layout_2020/sizing.rs.     *)
(* A Length is a number of px; the model takes the whole px of             *)
(* -1 .. MaxLen.                                                           *)
(***************************************************************************)
Lengths == (0 - 1)..MaxLen

(* enum BoxContentSizes { NoneWereRequested, Inline(ContentSizes) } *)
NoneWereRequested == [tag |-> "NoneWereRequested", min_content |-> 0, max_content |-> 0]
Inline(min_content, max_content) ==
    [tag |-> "Inline", min_content |-> min_content, max_content |-> max_content]
BoxContentSizes ==
    {NoneWereRequested} \cup {Inline(mn, mx) : mn \in Lengths, mx \in Lengths}

(* Length::max and Length::min *)
LengthMax(a, b) == IF a >= b THEN a ELSE b
LengthMin(a, b) == IF a <= b THEN a ELSE b

(* expect_inline: the ContentSizes, or None for the panic *)
expect_inline(self) ==
    IF self.tag = "NoneWereRequested" THEN None ELSE Some(self)

NotCalled == [state |-> "not called", value |-> 0]

(* shrink_to_fit with the two clamps in the other order. *)
shrink_to_fit_MinFirst(self, available) ==
    LET inline == expect_inline(self) IN
    IF inline = None
    THEN [state |-> "panicked", value |-> 0]
    ELSE [state |-> "returned",
          value |-> LengthMax(LengthMin(available, inline[1].max_content),
                              inline[1].min_content)]

(* available_size.max(inline.min_content).min(inline.max_content) *)
shrink_to_fit(self, available) ==
    LET inline == expect_inline(self) IN
    IF inline = None
    THEN [state |-> "panicked", value |-> 0]
    ELSE [state |-> "returned",
          value |-> LengthMin(LengthMax(available, inline[1].min_content),
                              inline[1].max_content)]

(* No shrink_to_fit call is part of the run. *)
NoLayout ==
    /\ box = NoneWereRequested
    /\ available_size = 0
    /\ fit = NotCalled

Init ==
    /\ inbox = <<>>
    /\ sent = [c \in Clients |-> 0]
    /\ sendErrs = 0
    /\ pc = "recv"
    /\ cur = NoMsg
    /\ global = "live"
    /\ adapters = <<>>
    /\ devices = <<>>
    /\ applied = <<>>
    /\ failures = 0
    /\ replies = <<>>
    /\ scriptMsgs = <<>>
    /\ acks = <<>>
    /\ warnings = 0
    /\ stopCause = "none"
    /\ boot = BootOk
    /\ newResult = NewSome(InboundChannel)
    /\ sender = InboundChannel
    /\ exitOk = 0
    /\ exitErr = 0
    /\ invalid_adapters = <<>>
    /\ held = Clients
    /\ NoLayout

(* The state before WebGPU::new is called: no channel, no thread. *)
InitNew ==
    /\ inbox = <<>>
    /\ sent = [c \in Clients |-> 0]
    /\ sendErrs = 0
    /\ pc = "unborn"
    /\ cur = NoMsg
    /\ global = "live"
    /\ adapters = <<>>
    /\ devices = <<>>
    /\ applied = <<>>
    /\ failures = 0
    /\ replies = <<>>
    /\ scriptMsgs = <<>>
    /\ acks = <<>>
    /\ warnings = 0
    /\ stopCause = "none"
    /\ boot \in [pref : BOOLEAN, chan1 : BOOLEAN, chan2 : BOOLEAN, spawn : BOOLEAN]
    /\ newResult = NewPending
    /\ sender = "none"
    /\ exitOk = 0
    /\ exitErr = 0
    /\ invalid_adapters = <<>>
    /\ held = Clients
    /\ NoLayout

(* WebGPU::new that returns the handle although the spawn failed. *)
WebGPUNew_IgnoresSpawnError ==
    /\ newResult = NewPending
    /\ IF ~boot.pref THEN newResult' = NewNone(FALSE) /\ UNCHANGED <<pc, sender>>
       ELSE IF ~boot.chan1 THEN newResult' = NewNone(TRUE) /\ UNCHANGED <<pc, sender>>
       ELSE IF ~boot.chan2 THEN newResult' = NewNone(TRUE) /\ UNCHANGED <<pc, sender>>
       ELSE IF ~boot.spawn THEN newResult' = NewSome(InboundChannel) /\ UNCHANGED <<pc, sender>>
       ELSE /\ newResult' = NewSome(InboundChannel)
            /\ sender' = InboundChannel
            /\ pc' = "recv"
    /\ UNCHANGED <<chanVars, cur, global, adapters, devices, stopCause, obsVars,
                   boot, exitOk, exitErr, otherVars, layoutVars>>

(* WebGPU::new: the pref, ipc::channel() twice, the spawn of the thread    *)
(* that runs WGPU::new(receiver, sender_clone, script_sender).run(); each  *)
(* failure returns None, the three later ones after a warn!.               *)
WebGPUNew ==
    /\ newResult = NewPending
    /\ IF ~boot.pref THEN newResult' = NewNone(FALSE) /\ UNCHANGED <<pc, sender>>
       ELSE IF ~boot.chan1 THEN newResult' = NewNone(TRUE) /\ UNCHANGED <<pc, sender>>
       ELSE IF ~boot.chan2 THEN newResult' = NewNone(TRUE) /\ UNCHANGED <<pc, sender>>
       ELSE IF ~boot.spawn THEN newResult' = NewNone(TRUE) /\ UNCHANGED <<pc, sender>>
       ELSE /\ newResult' = NewSome(InboundChannel)
            /\ sender' = InboundChannel
            /\ pc' = "recv"
    /\ UNCHANGED <<chanVars, cur, global, adapters, devices, stopCause, obsVars,
                   boot, exitOk, exitErr, otherVars, layoutVars>>

(* The state before a call of shrink_to_fit, for every box and size. *)
InitFit ==
    /\ inbox = <<>>
    /\ sent = [c \in Clients |-> 0]
    /\ sendErrs = 0
    /\ pc = "unborn"
    /\ cur = NoMsg
    /\ global = "live"
    /\ adapters = <<>>
    /\ devices = <<>>
    /\ applied = <<>>
    /\ failures = 0
    /\ replies = <<>>
    /\ scriptMsgs = <<>>
    /\ acks = <<>>
    /\ warnings = 0
    /\ stopCause = "none"
    /\ boot = BootOk
    /\ newResult = NewPending
    /\ sender = "none"
    /\ exitOk = 0
    /\ exitErr = 0
    /\ invalid_adapters = <<>>
    /\ held = Clients
    /\ box \in BoxContentSizes
    /\ available_size \in Lengths
    /\ fit = NotCalled

(* One call self.shrink_to_fit(available_size). *)
ShrinkToFit ==
    /\ fit = NotCalled
    /\ fit' = shrink_to_fit(box, available_size)
    /\ UNCHANGED <<chanVars, actorVars, obsVars, hostVars, otherVars,
                   box, available_size>>

(* A send through handle h puts the message on the channel h names. *)
Enqueue(h, m) == inbox' = IF h = InboundChannel THEN Append(inbox, m) ELSE inbox

(* IpcSender::send of a client on a clone of the inbound sender. *)
Send(c, h, r) ==
    /\ Submitted < MaxMsgs
    /\ Running
    /\ c \in held
    /\ h \in HandlesOf(c)
    /\ Enqueue(h, [client |-> c, seq |-> sent[c] + 1, req |-> r])
    /\ sent' = [sent EXCEPT ![c] = @ + 1]
    /\ UNCHANGED <<sendErrs, actorVars, obsVars>>
    /\ UNCHANGED <<hostVars, otherVars, layoutVars>>

(* The same send once the receiver has been dropped: Err, nothing enqueued. *)
SendFail(c) ==
    /\ Submitted < MaxMsgs
    /\ c \in held
    /\ HandlesOf(c) # {}
    /\ Terminated
    /\ sendErrs' = sendErrs + 1
    /\ UNCHANGED <<inbox, sent, actorVars, obsVars>>
    /\ UNCHANGED <<hostVars, otherVars, layoutVars>>

(* WebGPU::exit that reports Ok(()) whatever the send returned. *)
WebGPUExit_SwallowsError(c, h) ==
    /\ Submitted < MaxMsgs
    /\ c \in held
    /\ h \in HandlesOf(c)
    /\ IF Running
       THEN /\ Enqueue(h, [client |-> c, seq |-> sent[c] + 1, req |-> Simple("Exit", "live")])
            /\ sent' = [sent EXCEPT ![c] = @ + 1]
            /\ exitOk' = exitOk + 1
            /\ UNCHANGED exitErr
       ELSE /\ exitOk' = exitOk + 1
            /\ exitErr' = exitErr + 1
            /\ UNCHANGED <<inbox, sent>>
    /\ UNCHANGED <<sendErrs, actorVars, obsVars, boot, newResult, sender,
                   otherVars, layoutVars>>

(* WebGPU::exit(sender): self.0.send(WebGPURequest::Exit(sender)), with    *)
(* the error mapped to "Failed to send Exit message".  The ack channel is  *)
(* named by the key of the message.                                        *)
WebGPUExit(c, h) ==
    /\ Submitted < MaxMsgs
    /\ c \in held
    /\ h \in HandlesOf(c)
    /\ IF Running
       THEN /\ Enqueue(h, [client |-> c, seq |-> sent[c] + 1, req |-> Simple("Exit", "live")])
            /\ sent' = [sent EXCEPT ![c] = @ + 1]
            /\ exitOk' = exitOk + 1
            /\ UNCHANGED exitErr
       ELSE /\ exitErr' = exitErr + 1
            /\ UNCHANGED <<inbox, sent, exitOk>>
    /\ UNCHANGED <<sendErrs, actorVars, obsVars, boot, newResult, sender,
                   otherVars, layoutVars>>

(* Client c drops every handle it holds and never sends again. *)
Drop(c) ==
    /\ c \in held
    /\ held' = held \ {c}
    /\ UNCHANGED <<chanVars, actorVars, obsVars, hostVars, invalid_adapters, layoutVars>>

(* Senders counting the handles of the clients only. *)
Senders_ClientsOnly ==
    Cardinality({c \in held : InboundChannel \in HandlesOf(c)})

(* The live senders of the inbound channel: the handles the clients hold  *)
(* and self.sender, the clone WGPU::new stores in the actor.              *)
Senders ==
    Cardinality({c \in held : InboundChannel \in HandlesOf(c)})
    + (IF sender = InboundChannel /\ Running THEN 1 ELSE 0)

(* Recv taking the newest message instead of the oldest. *)
Recv_TakesLast ==
    /\ pc = "recv"
    /\ inbox # <<>>
    /\ inbox[Len(inbox)].req # Undecodable
    /\ cur' = inbox[Len(inbox)]
    /\ inbox' = SubSeq(inbox, 1, Len(inbox) - 1)
    /\ pc' = "dispatch"
    /\ UNCHANGED <<sent, sendErrs, global, adapters, devices, stopCause, obsVars>>
    /\ UNCHANGED <<hostVars, otherVars, layoutVars>>

(* Recv that does not wait for the arm of the previous message to end. *)
Recv_WhileDispatching ==
    /\ pc \in {"recv", "dispatch"}
    /\ inbox # <<>>
    /\ Head(inbox).req # Undecodable
    /\ cur' = Head(inbox)
    /\ inbox' = Tail(inbox)
    /\ pc' = "dispatch"
    /\ UNCHANGED <<sent, sendErrs, global, adapters, devices, stopCause, obsVars>>
    /\ UNCHANGED <<hostVars, otherVars, layoutVars>>

(* while let Ok(msg) = self.receiver.recv() *)
Recv ==
    /\ pc = "recv"
    /\ inbox # <<>>
    /\ Head(inbox).req # Undecodable
    /\ cur' = Head(inbox)
    /\ inbox' = Tail(inbox)
    /\ pc' = "dispatch"
    /\ UNCHANGED <<sent, sendErrs, global, adapters, devices, stopCause, obsVars>>
    /\ UNCHANGED <<hostVars, otherVars, layoutVars>>

(* RecvErr that announces the end of run to the downstream consumer. *)
RecvErr_NotifiesScript ==
    /\ pc = "recv"
    /\ IF inbox # <<>>
       THEN Head(inbox).req = Undecodable /\ inbox' = Tail(inbox)
       ELSE Senders = 0 /\ inbox' = inbox
    /\ pc' = "returned"
    /\ global' = "dropped"
    /\ stopCause' = "RecvErr"
    /\ scriptMsgs' = Append(scriptMsgs, [msg |-> "Exit", delivered |-> TRUE])
    /\ UNCHANGED <<sent, sendErrs, cur, adapters, devices,
                   applied, failures, replies, acks, warnings>>
    /\ UNCHANGED <<hostVars, otherVars, layoutVars>>

(* recv() returns Err, on bytes that do not decode or on a channel with   *)
(* no sender left: the while let ends and run returns, dropping self.     *)
RecvErr ==
    /\ pc = "recv"
    /\ IF inbox # <<>>
       THEN Head(inbox).req = Undecodable /\ inbox' = Tail(inbox)
       ELSE Senders = 0 /\ inbox' = inbox
    /\ pc' = "returned"
    /\ global' = "dropped"
    /\ stopCause' = "RecvErr"
    /\ UNCHANGED <<sent, sendErrs, cur, adapters, devices, obsVars>>
    /\ UNCHANGED <<hostVars, otherVars, layoutVars>>

(* Leaving a match arm: back to the receive at the top of the loop. *)
Continue ==
    /\ pc' = "recv"
    /\ cur' = NoMsg
    /\ UNCHANGED <<global, stopCause>>

(* A panic on the WGPU thread: the thread unwinds, self is dropped. *)
Panic ==
    /\ pc' = "panicked"
    /\ cur' = NoMsg
    /\ global' = "dropped"
    /\ stopCause' = "Panic"

(* return inside the loop: run ends, self is dropped. *)
Return(cause) ==
    /\ pc' = "returned"
    /\ cur' = NoMsg
    /\ global' = "dropped"
    /\ stopCause' = cause

(* CString::new(bytes): Err when the bytes contain a NUL, else the bytes *)
(* with the terminating NUL appended. *)
CStringNew(bytes) ==
    IF \E i \in 1..Len(bytes) : bytes[i] = 0
    THEN [ok |-> FALSE, bytes |-> <<>>]
    ELSE [ok |-> TRUE, bytes |-> bytes \o <<0>>]

(* What a gfx_select! backend call can do with an identifier in state h:   *)
(* perform the operation, fail and hand back an error that the arm         *)
(* discards, or panic inside the backend.                                  *)
BackendOutcomes(h) == IF h = "live" THEN {"ok", "err"} ELSE {"err", "panic"}

(* let _ = gfx_select!(id => global.operation(..)) with outcome o *)
GfxSelect(o) ==
    /\ o \in BackendOutcomes(cur.req.handle)
    /\ IF o = "panic"
       THEN Panic /\ UNCHANGED <<applied, failures>>
       ELSE /\ Continue
            /\ applied' = IF o = "ok" THEN Append(applied, Key(cur)) ELSE applied
            /\ failures' = IF o = "err" THEN failures + 1 ELSE failures

(* DispatchPlain that also tells the downstream consumer. *)
DispatchPlain_NotifiesScript ==
    /\ pc = "dispatch"
    /\ cur.req.kind \in PlainKinds
    /\ \E o \in {"ok", "err", "panic"} : GfxSelect(o)
    /\ scriptMsgs' = Append(scriptMsgs, [msg |-> "Exit", delivered |-> TRUE])
    /\ UNCHANGED <<chanVars, adapters, devices, replies, acks, warnings>>
    /\ UNCHANGED <<hostVars, otherVars, layoutVars>>

(* CommandEncoderFinish .. CreateShaderModule, Destroy*, Run*Pass, Submit, *)
(* UnmapBuffer: the arm is one backend call. *)
DispatchPlain ==
    /\ pc = "dispatch"
    /\ cur.req.kind \in PlainKinds
    /\ \E o \in {"ok", "err", "panic"} : GfxSelect(o)
    /\ UNCHANGED <<chanVars, adapters, devices, replies, scriptMsgs, acks, warnings>>
    /\ UNCHANGED <<hostVars, otherVars, layoutVars>>

(* CreateBuffer, CreateSampler, CreateTexture, CreateTextureView:          *)
(* CString::new(descriptor.label.as_bytes()).unwrap(), then the call.      *)
DispatchLabelled ==
    /\ pc = "dispatch"
    /\ cur.req.kind \in LabelKinds
    /\ IF CStringNew(cur.req.text).ok
       THEN \E o \in {"ok", "err", "panic"} : GfxSelect(o)
       ELSE Panic /\ UNCHANGED <<applied, failures>>
    /\ UNCHANGED <<chanVars, adapters, devices, replies, scriptMsgs, acks, warnings>>
    /\ UNCHANGED <<hostVars, otherVars, layoutVars>>

(* CreateComputePipeline: CString::new(entry_point).unwrap(), then the call. *)
DispatchCreateComputePipeline ==
    /\ pc = "dispatch"
    /\ cur.req.kind = "CreateComputePipeline"
    /\ IF CStringNew(cur.req.text).ok
       THEN \E o \in {"ok", "err", "panic"} : GfxSelect(o)
       ELSE Panic /\ UNCHANGED <<applied, failures>>
    /\ UNCHANGED <<chanVars, adapters, devices, replies, scriptMsgs, acks, warnings>>
    /\ UNCHANGED <<hostVars, otherVars, layoutVars>>

(* The conversions of the CreateRenderPipeline arm, in order:              *)
(* CString::new(vertex_entry_point).unwrap(); with a fragment module,      *)
(* CString::new(fragment_entry_point.unwrap()).unwrap().                   *)
RenderPipelineStrings(r) ==
    /\ CStringNew(r.text).ok
    /\ r.fragment_module # None =>
          /\ r.fragment_entry_point # None
          /\ CStringNew(r.fragment_entry_point[1]).ok

DispatchCreateRenderPipeline ==
    /\ pc = "dispatch"
    /\ cur.req.kind = "CreateRenderPipeline"
    /\ IF RenderPipelineStrings(cur.req)
       THEN \E o \in {"ok", "err", "panic"} : GfxSelect(o)
       ELSE Panic /\ UNCHANGED <<applied, failures>>
    /\ UNCHANGED <<chanVars, adapters, devices, replies, scriptMsgs, acks, warnings>>
    /\ UNCHANGED <<hostVars, otherVars, layoutVars>>

(* sender.send(reply) on a reply channel; ok is whether the peer is there. *)
(* if let Err(e) = .. { warn!(..) } *)
SendReply(reply, ok) ==
    /\ replies' = Append(replies, [reply EXCEPT !.delivered = ok])
    /\ warnings' = IF ok THEN warnings ELSE warnings + 1

Reply(to, result, id, queue, channel) ==
    [to |-> to, result |-> result, id |-> id, queue_id |-> queue,
     channel |-> channel, delivered |-> TRUE]

(* The identity handler of IdentityRecyclerFactory, through which the      *)
(* backend registers a resource under the id the caller supplied.          *)
process(id) == id

(* self.global.pick_adapter(&options, IdSet(&ids, ..)): None, or one of ids. *)
pick_adapter(ids) == {None} \cup {Some(process(ids[i])) : i \in 1..Len(ids)}

(* DispatchRequestAdapter that hands out a clone of script_sender. *)
DispatchRequestAdapter_ClonesScriptSender ==
    /\ pc = "dispatch"
    /\ cur.req.kind = "RequestAdapter"
    /\ \E picked \in pick_adapter(cur.req.ids), ok \in BOOLEAN :
          IF picked = None
          THEN /\ SendReply(Reply(Key(cur), "Err", "none", "none", "none"), ok)
               /\ Return("NoAdapter")
               /\ UNCHANGED adapters
          ELSE /\ adapters' = Append(adapters, picked[1])
               /\ SendReply(Reply(Key(cur), "OkAdapter", picked[1], "none", ScriptChannel), ok)
               /\ Continue
    /\ UNCHANGED <<chanVars, devices, applied, failures, scriptMsgs, acks>>
    /\ UNCHANGED <<hostVars, otherVars, layoutVars>>

(* DispatchRequestAdapter that records the adapter only when the reply was *)
(* delivered.                                                              *)
DispatchRequestAdapter_PushesOnDelivery ==
    /\ pc = "dispatch"
    /\ cur.req.kind = "RequestAdapter"
    /\ \E picked \in pick_adapter(cur.req.ids), ok \in BOOLEAN :
          IF picked = None
          THEN /\ SendReply(Reply(Key(cur), "Err", "none", "none", "none"), ok)
               /\ Return("NoAdapter")
               /\ UNCHANGED adapters
          ELSE /\ adapters' = IF ok THEN Append(adapters, picked[1]) ELSE adapters
               /\ SendReply(Reply(Key(cur), "OkAdapter", picked[1], "none", sender), ok)
               /\ Continue
    /\ UNCHANGED <<chanVars, devices, applied, failures, scriptMsgs, acks>>
    /\ UNCHANGED <<hostVars, otherVars, layoutVars>>

(* DispatchRequestAdapter that keeps only the newest adapter. *)
DispatchRequestAdapter_ReplacesAdapter ==
    /\ pc = "dispatch"
    /\ cur.req.kind = "RequestAdapter"
    /\ \E picked \in pick_adapter(cur.req.ids), ok \in BOOLEAN :
          IF picked = None
          THEN /\ SendReply(Reply(Key(cur), "Err", "none", "none", "none"), ok)
               /\ Return("NoAdapter")
               /\ UNCHANGED adapters
          ELSE /\ adapters' = <<picked[1]>>
               /\ SendReply(Reply(Key(cur), "OkAdapter", picked[1], "none", sender), ok)
               /\ Continue
    /\ UNCHANGED <<chanVars, devices, applied, failures, scriptMsgs, acks>>
    /\ UNCHANGED <<hostVars, otherVars, layoutVars>>

DispatchRequestAdapter ==
    /\ pc = "dispatch"
    /\ cur.req.kind = "RequestAdapter"
    /\ \E picked \in pick_adapter(cur.req.ids), ok \in BOOLEAN :
          IF picked = None
          THEN /\ SendReply(Reply(Key(cur), "Err", "none", "none", "none"), ok)
               /\ Return("NoAdapter")
               /\ UNCHANGED adapters
          ELSE /\ adapters' = Append(adapters, picked[1])
               /\ SendReply(Reply(Key(cur), "OkAdapter", picked[1], "none", sender), ok)
               /\ Continue
    /\ UNCHANGED <<chanVars, devices, applied, failures, scriptMsgs, acks>>
    /\ UNCHANGED <<hostVars, otherVars, layoutVars>>

(* gfx_select!(device_id => global.adapter_request_device(..)): the call   *)
(* returns a DeviceId, or panics inside the backend on identifiers that    *)
(* are not live.  It has no error result.                                  *)
adapter_request_device(r) ==
    IF r.handle = "live"
    THEN {Some(process(r.device_id))}
    ELSE {Some(process(r.device_id)), None}

(* DispatchRequestDevice that answers with a queue id of its own. *)
DispatchRequestDevice_OwnQueueId ==
    /\ pc = "dispatch"
    /\ cur.req.kind = "RequestDevice"
    /\ \E id \in adapter_request_device(cur.req), ok \in BOOLEAN :
          IF id = None
          THEN Panic /\ UNCHANGED <<devices, replies, warnings>>
          ELSE /\ devices' = Append(devices, id[1])
               /\ SendReply(Reply(Key(cur), "OkDevice", id[1], "q0", "none"), ok)
               /\ Continue
    /\ UNCHANGED <<chanVars, adapters, applied, failures, scriptMsgs, acks>>
    /\ UNCHANGED <<hostVars, otherVars, layoutVars>>

(* DispatchRequestDevice that numbers the devices itself. *)
DispatchRequestDevice_MintsId ==
    /\ pc = "dispatch"
    /\ cur.req.kind = "RequestDevice"
    /\ \E id \in adapter_request_device(cur.req), ok \in BOOLEAN :
          IF id = None
          THEN Panic /\ UNCHANGED <<devices, replies, warnings>>
          ELSE /\ devices' = Append(devices, "d0")
               /\ SendReply(Reply(Key(cur), "OkDevice", "d0", "d0", "none"), ok)
               /\ Continue
    /\ UNCHANGED <<chanVars, adapters, applied, failures, scriptMsgs, acks>>
    /\ UNCHANGED <<hostVars, otherVars, layoutVars>>

(* DispatchRequestDevice that refuses a second device. *)
DispatchRequestDevice_OnePerAdapter ==
    /\ pc = "dispatch"
    /\ cur.req.kind = "RequestDevice"
    /\ \E id \in adapter_request_device(cur.req), ok \in BOOLEAN :
          IF id = None
          THEN Panic /\ UNCHANGED <<devices, replies, warnings>>
          ELSE IF devices # <<>>
          THEN /\ SendReply(Reply(Key(cur), "Err", "none", "none", "none"), ok)
               /\ Continue
               /\ UNCHANGED devices
          ELSE /\ devices' = Append(devices, id[1])
               /\ SendReply(Reply(Key(cur), "OkDevice", id[1], id[1], "none"), ok)
               /\ Continue
    /\ UNCHANGED <<chanVars, adapters, applied, failures, scriptMsgs, acks>>
    /\ UNCHANGED <<hostVars, otherVars, layoutVars>>

DispatchRequestDevice ==
    /\ pc = "dispatch"
    /\ cur.req.kind = "RequestDevice"
    /\ \E id \in adapter_request_device(cur.req), ok \in BOOLEAN :
          IF id = None
          THEN Panic /\ UNCHANGED <<devices, replies, warnings>>
          ELSE /\ devices' = Append(devices, id[1])
               /\ SendReply(Reply(Key(cur), "OkDevice", id[1], id[1], "none"), ok)
               /\ Continue
    /\ UNCHANGED <<chanVars, adapters, applied, failures, scriptMsgs, acks>>
    /\ UNCHANGED <<hostVars, otherVars, layoutVars>>

(* ExitNotify going on to the ack without drop(self.global): the backend  *)
(* state would then live until run returns, after the ack.                *)
ExitNotify_SkipsRelease ==
    /\ pc = "dispatch"
    /\ cur.req.kind = "Exit"
    /\ \E ok \in BOOLEAN :
          /\ scriptMsgs' = Append(scriptMsgs, [msg |-> "Exit", delivered |-> ok])
          /\ warnings' = IF ok THEN warnings ELSE warnings + 1
    /\ pc' = "exit_ack"
    /\ UNCHANGED <<chanVars, cur, global, adapters, devices, stopCause,
                   applied, failures, replies, acks>>
    /\ UNCHANGED <<hostVars, otherVars, layoutVars>>

(* Exit arm, first statement: self.script_sender.send(WebGPUMsg::Exit). *)
ExitNotify ==
    /\ pc = "dispatch"
    /\ cur.req.kind = "Exit"
    /\ \E ok \in BOOLEAN :
          /\ scriptMsgs' = Append(scriptMsgs, [msg |-> "Exit", delivered |-> ok])
          /\ warnings' = IF ok THEN warnings ELSE warnings + 1
    /\ pc' = "exit_drop"
    /\ UNCHANGED <<chanVars, cur, global, adapters, devices, stopCause,
                   applied, failures, replies, acks>>
    /\ UNCHANGED <<hostVars, otherVars, layoutVars>>

(* ExitDropGlobal that keeps the backend state. *)
ExitDropGlobal_KeepsGlobal ==
    /\ pc = "exit_drop"
    /\ pc' = "exit_ack"
    /\ UNCHANGED <<chanVars, cur, global, adapters, devices, stopCause, obsVars>>
    /\ UNCHANGED <<hostVars, otherVars, layoutVars>>

(* Exit arm: drop(self.global). *)
ExitDropGlobal ==
    /\ pc = "exit_drop"
    /\ global' = "dropped"
    /\ pc' = "exit_ack"
    /\ UNCHANGED <<chanVars, cur, adapters, devices, stopCause, obsVars>>
    /\ UNCHANGED <<hostVars, otherVars, layoutVars>>

(* ExitAck with sender.send(()).unwrap(): a failed ack panics. *)
ExitAck_UnwrapsSend ==
    /\ pc = "exit_ack"
    /\ \E ok \in BOOLEAN :
          /\ acks' = Append(acks, [to |-> Key(cur), delivered |-> ok])
          /\ warnings' = warnings
          /\ IF ok
             THEN pc' = "returned" /\ stopCause' = "Exit"
             ELSE pc' = "panicked" /\ stopCause' = "Panic"
    /\ cur' = NoMsg
    /\ UNCHANGED <<chanVars, global, adapters, devices, applied, failures,
                   replies, scriptMsgs>>
    /\ UNCHANGED <<hostVars, otherVars, layoutVars>>

(* ExitAck without the return: the loop goes on to the next recv. *)
ExitAck_KeepsLooping ==
    /\ pc = "exit_ack"
    /\ \E ok \in BOOLEAN :
          /\ acks' = Append(acks, [to |-> Key(cur), delivered |-> ok])
          /\ warnings' = IF ok THEN warnings ELSE warnings + 1
    /\ pc' = "recv"
    /\ cur' = NoMsg
    /\ stopCause' = "Exit"
    /\ UNCHANGED <<chanVars, global, adapters, devices, applied, failures,
                   replies, scriptMsgs>>
    /\ UNCHANGED <<hostVars, otherVars, layoutVars>>

(* Exit arm: sender.send(()) on the ack channel, then return. *)
ExitAck ==
    /\ pc = "exit_ack"
    /\ \E ok \in BOOLEAN :
          /\ acks' = Append(acks, [to |-> Key(cur), delivered |-> ok])
          /\ warnings' = IF ok THEN warnings ELSE warnings + 1
    /\ pc' = "returned"
    /\ cur' = NoMsg
    /\ stopCause' = "Exit"
    /\ UNCHANGED <<chanVars, global, adapters, devices, applied, failures,
                   replies, scriptMsgs>>
    /\ UNCHANGED <<hostVars, otherVars, layoutVars>>

(* One step of the WGPU thread. *)
Actor ==
    \/ Recv
    \/ RecvErr
    \/ DispatchPlain
    \/ DispatchLabelled
    \/ DispatchCreateComputePipeline
    \/ DispatchCreateRenderPipeline
    \/ DispatchRequestAdapter
    \/ DispatchRequestDevice
    \/ ExitNotify
    \/ ExitDropGlobal
    \/ ExitAck

Next ==
    \/ \E c \in Clients, h \in {InboundChannel, ScriptChannel}, r \in Requests : Send(c, h, r)
    \/ \E c \in Clients : SendFail(c)
    \/ \E c \in Clients, h \in {InboundChannel, ScriptChannel} : WebGPUExit(c, h)
    \/ Actor

Spec == Init /\ [][Next]_vars

(* The same system started before WebGPU::new is called. *)
NextNew ==
    \/ WebGPUNew
    \/ Next

SpecNew == InitNew /\ [][NextNew]_vars

(* The same system with clients that may drop their handles, sending one  *)
(* well-formed request of every arm shape, or undecodable bytes.           *)
DropRequests ==
    {Simple("Submit", "live"),
     WebGPURequest("CreateBuffer", "live", GoodString, None, None, <<>>, "none"),
     WebGPURequest("CreateComputePipeline", "live", GoodString, None, None, <<>>, "none"),
     WebGPURequest("CreateRenderPipeline", "live", GoodString, None, None, <<>>, "none"),
     WebGPURequest("RequestAdapter", "live", <<>>, None, None, <<"A", "B">>, "none"),
     WebGPURequest("RequestDevice", "live", <<>>, None, None, <<>>, "d1"),
     Undecodable}

NextDrop ==
    \/ \E c \in Clients : Drop(c)
    \/ \E c \in Clients, h \in {InboundChannel, ScriptChannel}, r \in DropRequests : Send(c, h, r)
    \/ \E c \in Clients : SendFail(c)
    \/ \E c \in Clients, h \in {InboundChannel, ScriptChannel} : WebGPUExit(c, h)
    \/ Actor

SpecDrop == Init /\ [][NextDrop]_vars

(* The calls of shrink_to_fit. *)
NextFit == ShrinkToFit

SpecFit == InitFit /\ [][NextFit]_vars

(* The thread is scheduled as long as it can take a step. *)
FairSpec == Spec /\ WF_vars(Actor)

TypeOK == pc \in {"unborn", "recv", "dispatch", "exit_drop", "exit_ack", "returned", "panicked"}

(***************************************************************************)
(* Properties                                                              *)
(***************************************************************************)
Privileged(r) == r.kind \in {"RequestAdapter", "RequestDevice"}

HasNul(str) == \E i \in 1..Len(str) : str[i] = 0

IsPrefix(s, t) == Len(s) <= Len(t) /\ SubSeq(t, 1, Len(s)) = s

(* The Exit arm has been entered. *)
ExitStarted == pc \in {"exit_drop", "exit_ack"} \/ stopCause = "Exit"

(* The step appends an Err reply. *)
ErrReplySent ==
    /\ Len(replies') = Len(replies) + 1
    /\ replies'[Len(replies')].result = "Err"
    /\ replies'[Len(replies')].to = Key(cur)

(* C1: every RequestAdapter / RequestDevice delivered to the inbound       *)
(* channel gets exactly one reply.  Stated for the runs in which the       *)
(* thread neither handled an Exit, nor failed a receive, nor panicked: no  *)
(* reply channel is sent to twice, and run does not return while such a    *)
(* request is still waiting in the channel.                                *)
C1_ExactlyOneReply ==
    /\ \A i, j \in DOMAIN replies : replies[i].to = replies[j].to => i = j
    /\ (pc = "returned" /\ stopCause \notin {"Exit", "RecvErr"}) =>
          \A i \in DOMAIN inbox : ~Privileged(inbox[i].req)

(* C2: the dispatch loop leaves Running only by processing Exit.  Stated   *)
(* for the request variants: dispatching a variant other than Exit never   *)
(* makes run return.                                                       *)
C2_OnlyExitReturns ==
    [][(pc = "dispatch" /\ cur.req.kind # "Exit") => pc' # "returned"]_vars

(* C3: a RequestAdapter that finds no adapter is answered with Err and     *)
(* ends that call only: the step that sends the Err reply takes the actor  *)
(* back to the receive, with the queued messages still to be dispatched.   *)
C3_NoAdapterKeepsRunning ==
    [][(pc = "dispatch" /\ cur.req.kind = "RequestAdapter" /\ ErrReplySent)
         => (pc' = "recv" /\ global' = "live" /\ inbox' = inbox)]_vars

(* C4: Exit handling is ordered: notification to the downstream consumer,  *)
(* release of the backend state, ack, Terminated.  The ack is never sent   *)
(* before the release, the release never before the notification, and the  *)
(* thread does not return on Exit before the ack was attempted.            *)
C4_ExitOrder ==
    /\ acks # <<>> => (global = "dropped" /\ scriptMsgs # <<>>)
    /\ (global = "dropped" /\ stopCause \in {"none", "Exit"}) => scriptMsgs # <<>>
    /\ pc = "exit_drop" => (scriptMsgs # <<>> /\ global = "live" /\ acks = <<>>)
    /\ pc = "exit_ack" => (global = "dropped" /\ acks = <<>>)
    /\ stopCause = "Exit" => (pc = "returned" /\ acks # <<>>)

C4_Witness ==
    /\ stopCause = "Exit"
    /\ Len(scriptMsgs) = 1 /\ scriptMsgs[1].delivered
    /\ global = "dropped"
    /\ Len(acks) = 1 /\ acks[1].delivered

(* C5: a failed send of the Exit notification or of the ack is not fatal:  *)
(* once the notification was attempted, a stopped thread has returned from *)
(* the Exit arm with the backend state released and exactly one ack        *)
(* attempted; an attempted ack, delivered or not, leaves the thread        *)
(* returned (not panicked); at most one ack is ever sent.                  *)
C5_ExitSendFailuresNonFatal ==
    /\ Len(acks) <= 1
    /\ (scriptMsgs # <<>> /\ Terminated) =>
          (pc = "returned" /\ stopCause = "Exit" /\ global = "dropped" /\ Len(acks) = 1)
    /\ acks # <<>> => (pc = "returned" /\ stopCause = "Exit" /\ global = "dropped")

C5_Witness ==
    /\ Terminated
    /\ Len(scriptMsgs) = 1 /\ ~scriptMsgs[1].delivered
    /\ Len(acks) = 1 /\ ~acks[1].delivered
    /\ warnings = 2

(* C6: once the Exit arm has been entered nothing is dequeued or           *)
(* dispatched any more: the channel only grows, no backend operation, no   *)
(* list update and no reply happens; and after the Exit the thread has     *)
(* returned.                                                               *)
C6_NoDispatchAfterExit ==
    /\ [][ExitStarted =>
            /\ IsPrefix(inbox, inbox')
            /\ cur' \in {cur, NoMsg}
            /\ applied' = applied /\ failures' = failures
            /\ adapters' = adapters /\ devices' = devices
            /\ replies' = replies]_vars
    /\ [](stopCause = "Exit" => pc = "returned")

C6_Witness ==
    /\ stopCause = "Exit"
    /\ pc = "returned"
    /\ \E i \in DOMAIN inbox : inbox[i].req.kind \in {"Exit", "RequestAdapter", "RequestDevice"}

(* The keys of the commands of all clients in the order the actor applies  *)
(* them: applied, then the one in dispatch, then the queued ones.          *)
DispatchOrder ==
    applied \o (IF cur = NoMsg THEN <<>> ELSE <<Key(cur)>>)
            \o [i \in DOMAIN inbox |-> Key(inbox[i])]

(* C7: restricted to one client, the order in which the actor applies      *)
(* commands is that client's submission order: no reordering, no           *)
(* duplicate, nothing skipped and executed later.                          *)
C7_PerClientOrder ==
    \A i, j \in DOMAIN DispatchOrder :
        (i < j /\ DispatchOrder[i][1] = DispatchOrder[j][1])
            => DispatchOrder[i][2] < DispatchOrder[j][2]

C7_Witness ==
    \E c \in Clients : applied = <<<<c, 1>>, <<c, 2>>>>

(* C8: when the ack of an Exit can be observed, the backend state has been *)
(* released and no command is in dispatch; from then on no backend         *)
(* operation is executed.                                                  *)
C8_AckAfterAllWork ==
    /\ [](acks # <<>> => (global = "dropped" /\ pc # "dispatch" /\ cur = NoMsg))
    /\ [][acks' # <<>> => (applied' = applied /\ failures' = failures)]_vars

C8_Witness ==
    /\ Len(acks) = 1 /\ acks[1].delivered
    /\ applied # <<>>
    /\ inbox = <<>>

(* C9: a RequestDevice naming an identifier that is not live is answered   *)
(* with Err, appends no device record and leaves the actor Running.        *)
(* Stated for the runs in which the backend call returns.                  *)
C9_StaleDeviceIsErr ==
    [][(pc = "dispatch" /\ cur.req.kind = "RequestDevice" /\ cur.req.handle # "live"
            /\ pc' # "panicked")
         => (ErrReplySent /\ devices' = devices /\ pc' = "recv")]_vars

(* The payloads C10 names: a NUL byte in a label or entry point, or a      *)
(* fragment module without fragment entry point.                           *)
MalformedPayload(r) ==
    \/ /\ r.kind \in LabelKinds \cup {"CreateComputePipeline", "CreateRenderPipeline"}
       /\ HasNul(r.text)
    \/ /\ r.kind = "CreateRenderPipeline"
       /\ r.fragment_module # None
       /\ (r.fragment_entry_point = None \/ HasNul(r.fragment_entry_point[1]))

(* C10: a command with a malformed string payload never aborts the actor   *)
(* thread: it is logged and dropped, and the loop goes on.                 *)
C10_MalformedPayloadNeverAborts ==
    [][(pc = "dispatch" /\ MalformedPayload(cur.req))
         => (pc' = "recv" /\ stopCause' = "none" /\ applied' = applied)]_vars

(* The ids carried by the replies of the given result, in sending order. *)
IsOkAdapter(r) == r.result = "OkAdapter"
IsOkDevice(r) == r.result = "OkDevice"
IdsOf(rs) == [i \in DOMAIN rs |-> rs[i].id]

(* C13 as claimed: the adapter list has as many records as there are       *)
(* RequestAdapter requests with a delivered Ok reply.                      *)
C13_AdaptersMatchDeliveredOk ==
    Len(adapters) =
        Cardinality({i \in DOMAIN replies : IsOkAdapter(replies[i]) /\ replies[i].delivered})

(* C13 amended: the adapter list holds exactly the adapter ids of the Ok   *)
(* replies the actor sent to RequestAdapter requests, delivered or not, in *)
(* order; a RequestAdapter answered with Err adds no record.               *)
C13_AdaptersMatchOkSent ==
    adapters = IdsOf(SelectSeq(replies, IsOkAdapter))

C13_Witness ==
    /\ Len(adapters) = 1
    /\ \E i \in DOMAIN replies : IsOkAdapter(replies[i]) /\ ~replies[i].delivered
    /\ \E i \in DOMAIN replies : replies[i].result = "Err"

(* C14: in every Ok reply to RequestDevice queue_id equals device_id, and  *)
(* the device list holds exactly these ids, in order.                      *)
C14_QueueIdIsDeviceId ==
    /\ \A i \in DOMAIN replies :
          IsOkDevice(replies[i]) => replies[i].queue_id = replies[i].id
    /\ devices = IdsOf(SelectSeq(replies, IsOkDevice))

C14_Witness ==
    /\ Len(devices) = 2
    /\ \A i \in DOMAIN replies : IsOkDevice(replies[i]) /\ replies[i].queue_id = "d1"

(* The step is a receive that fails / a reply send that fails. *)
RecvFails ==
    /\ pc = "recv" /\ inbox # <<>> /\ Head(inbox).req = Undecodable
    /\ inbox' = Tail(inbox)

ReplySendFails ==
    /\ cur.req.kind \in {"RequestAdapter", "RequestDevice"}
    /\ Len(replies') = Len(replies) + 1
    /\ ~replies'[Len(replies')].delivered

(* C15: a failed receive and a failed send of a RequestAdapter /           *)
(* RequestDevice reply are both logged and leave the loop running.         *)
C15_TransportErrorsRecoverable ==
    [][(RecvFails \/ ReplySendFails)
         => (pc' = "recv" /\ warnings' = warnings + 1 /\ global' = "live")]_vars

(* The request has no reply channel and is not Exit. *)
FireAndForget(r) ==
    r.kind \in PlainKinds \cup LabelKinds \cup {"CreateComputePipeline", "CreateRenderPipeline"}

(* C19: when the backend operation of a fire-and-forget command fails, a   *)
(* log entry is written, nothing is sent to a client and the operation is  *)
(* not retried.                                                            *)
C19_FailedOperationIsLogged ==
    [][(pc = "dispatch" /\ FireAndForget(cur.req) /\ failures' = failures + 1)
         => (warnings' = warnings + 1 /\ replies' = replies /\ acks' = acks
             /\ applied' = applied /\ pc' = "recv")]_vars

(* C20: at most one command is in dispatch.  A message is dequeued only    *)
(* when no command is in dispatch, and every backend operation, list       *)
(* update and reply belongs to the one command in dispatch.                *)
C20_OneCommandInDispatch ==
    /\ [](pc = "recv" => cur = NoMsg)
    /\ [][Len(inbox') < Len(inbox) => (pc = "recv" /\ cur = NoMsg)]_vars
    /\ [][applied' # applied =>
            (pc = "dispatch" /\ applied' = Append(applied, Key(cur)) /\ cur' = NoMsg)]_vars
    /\ [][(replies' # replies \/ adapters' # adapters \/ devices' # devices) =>
            (pc = "dispatch" /\ replies'[Len(replies')].to = Key(cur) /\ cur' = NoMsg)]_vars

C20_Witness ==
    /\ applied = <<<<"c1", 1>>, <<"c2", 1>>>>
    /\ pc = "recv"

(* C16: WebGPU::new returns the handle exactly when the pref is on, both   *)
(* channels were created and the thread was spawned; in every other case   *)
(* it returns None and no actor thread exists.                             *)
C16_NewReturnsHandleOrNone ==
    /\ newResult.state = "pending" => pc = "unborn"
    /\ newResult.state = "Some" =>
          /\ boot = BootOk
          /\ pc # "unborn"
          /\ newResult.handle = InboundChannel /\ sender = InboundChannel
    /\ newResult.state = "None" =>
          /\ boot # BootOk
          /\ pc = "unborn" /\ inbox = <<>> /\ sender = "none"

C16_Witness ==
    /\ newResult.state = "None"
    /\ boot.pref /\ boot.chan1 /\ boot.chan2 /\ ~boot.spawn

(* Exit messages enqueued so far: queued, in dispatch, or handled. *)
ExitEnqueued ==
    Cardinality({i \in DOMAIN inbox : inbox[i].req.kind = "Exit"})
    + (IF cur.req.kind = "Exit" THEN 1 ELSE 0)
    + (IF stopCause = "Exit" THEN 1 ELSE 0)

(* C17: an exit() that returns Ok(()) has enqueued exactly one Exit        *)
(* message of the caller; an exit() that returns the error has enqueued    *)
(* nothing.                                                                *)
C17_ExitEnqueuesOneOrFails ==
    /\ [](exitOk = ExitEnqueued)
    /\ [][exitOk' # exitOk =>
            /\ exitOk' = exitOk + 1 /\ exitErr' = exitErr
            /\ Len(inbox') = Len(inbox) + 1
            /\ IsPrefix(inbox, inbox')
            /\ inbox'[Len(inbox')].req.kind = "Exit"
            /\ sent'[inbox'[Len(inbox')].client] = inbox'[Len(inbox')].seq]_vars
    /\ [][exitErr' # exitErr =>
            (exitErr' = exitErr + 1 /\ exitOk' = exitOk /\ inbox' = inbox /\ sent' = sent)]_vars

C17_Witness ==
    /\ exitOk = 1
    /\ exitErr = 1
    /\ Len(acks) = 1

(* C18: the handle in every Ok reply to RequestAdapter writes to the       *)
(* channel the actor reads, so every message a client sends, through the   *)
(* handle of WebGPU::new or through a handle from a reply, is appended to  *)
(* the actor's inbound channel behind the sender's earlier messages.       *)
C18_ReplyHandleIsInbound ==
    /\ [](\A i \in DOMAIN replies :
            IsOkAdapter(replies[i]) => replies[i].channel = InboundChannel)
    /\ [][sent' # sent =>
            /\ Len(inbox') = Len(inbox) + 1
            /\ IsPrefix(inbox, inbox')
            /\ sent'[inbox'[Len(inbox')].client] = inbox'[Len(inbox')].seq]_vars

C18_Witness ==
    \E c \in Clients :
        /\ \E i \in DOMAIN replies :
              IsOkAdapter(replies[i]) /\ replies[i].delivered /\ replies[i].to = <<c, 1>>
        /\ applied = <<<<c, 2>>>>

(* The step appends one reply; LastReply is that reply. *)
NewReply == Len(replies') = Len(replies) + 1
LastReply == replies'[Len(replies')]

(* C21: every identifier recorded or returned was supplied by the caller:  *)
(* the adapter id of an Ok reply is one of the candidate ids of the        *)
(* request in dispatch and is the id appended to the adapter list, the     *)
(* device id of an Ok reply is the device_id of the request in dispatch    *)
(* and is the id appended to the device list, and the lists change in no   *)
(* other step.                                                             *)
C21_IdsComeFromCaller ==
    [][/\ (NewReply /\ LastReply.result = "OkAdapter") =>
             /\ \E i \in DOMAIN cur.req.ids : LastReply.id = cur.req.ids[i]
             /\ adapters' = Append(adapters, LastReply.id)
       /\ (NewReply /\ LastReply.result = "OkDevice") =>
             /\ LastReply.id = cur.req.device_id
             /\ devices' = Append(devices, LastReply.id)
       /\ adapters' # adapters => (NewReply /\ LastReply.result = "OkAdapter")
       /\ devices' # devices => (NewReply /\ LastReply.result = "OkDevice")]_vars

C21_Witness ==
    /\ adapters = <<"B">>
    /\ devices = <<"d1">>

(* C22: the dispatch of a RequestDevice that the backend lets return (the  *)
(* arm reaches its end) always appends a device record and sends an Ok     *)
(* reply, whatever the adapter list and the device list hold already.      *)
C22_NoDeviceLimit ==
    [][(pc = "dispatch" /\ cur.req.kind = "RequestDevice" /\ pc' = "recv") =>
          /\ devices' = Append(devices, cur.req.device_id)
          /\ adapters' = adapters
          /\ NewReply
          /\ LastReply.result = "OkDevice"
          /\ LastReply.to = Key(cur)]_vars

C22_Witness ==
    /\ adapters = <<>>
    /\ devices = <<"d1", "d1">>
    /\ Len(replies) = 2
    /\ replies[1].to[1] = replies[2].to[1]
    /\ replies[1].delivered /\ replies[2].delivered

(* C23: while the actor is Running the adapter list and the device list    *)
(* only grow at the end.                                                   *)
C23_ListsOnlyGrow ==
    [][Running' => (IsPrefix(adapters, adapters') /\ IsPrefix(devices, devices'))]_vars

C23_Witness ==
    /\ Len(adapters) = 2
    /\ pc = "recv"
    /\ inbox = <<>>

(* C24: dispatching a variant other than RequestAdapter, RequestDevice and *)
(* Exit changes none of the three lists and sends nothing on a reply       *)
(* channel, on an ack channel or to the downstream consumer.               *)
C24_FireAndForgetFrame ==
    [][(pc = "dispatch" /\ FireAndForget(cur.req)) =>
          /\ adapters' = adapters
          /\ devices' = devices
          /\ invalid_adapters' = invalid_adapters
          /\ replies' = replies
          /\ acks' = acks
          /\ scriptMsgs' = scriptMsgs]_vars

C24_Witness ==
    /\ applied = <<<<"c1", 1>>>>
    /\ failures = 1
    /\ pc = "recv"
    /\ inbox = <<>>

(* C25: the Exit notification is sent downstream at most once and only by  *)
(* the Exit arm, an ack only by the Exit arm; a run that stopped for       *)
(* another reason has sent neither.                                        *)
C25_ExitNotifiedOnlyByExit ==
    /\ [](/\ Len(scriptMsgs) <= 1
          /\ stopCause \in {"NoAdapter", "RecvErr", "Panic"} =>
                (scriptMsgs = <<>> /\ acks = <<>>))
    /\ [][scriptMsgs' # scriptMsgs => (pc = "dispatch" /\ cur.req.kind = "Exit")]_vars
    /\ [][acks' # acks => (pc = "exit_ack" /\ cur.req.kind = "Exit")]_vars

C25_Witness ==
    /\ stopCause = "NoAdapter"
    /\ inbox # <<>>
    /\ Head(inbox).req.kind = "Exit"
    /\ exitOk = 1

(* C26: the inbound channel of a running actor always has a sender, the    *)
(* actor's own, so a receive on the empty channel never ends run: with     *)
(* every client handle dropped and nothing queued the thread has no step   *)
(* and stays in recv.                                                      *)
C26_BlockedNotDisconnected ==
    /\ []((pc = "recv") => Senders >= 1)
    /\ []((pc = "recv" /\ inbox = <<>>) => ~ENABLED Actor)
    /\ [][(pc = "recv" /\ inbox = <<>>) => (pc' = "recv" /\ global' = "live")]_vars

C26_Witness ==
    /\ held = {}
    /\ inbox = <<>>
    /\ pc = "recv"
    /\ exitOk = 0
    /\ Len(applied) = 1

(* C27: shrink_to_fit on Inline sizes returns available_size clamped from  *)
(* below by min_content and then from above by max_content; on             *)
(* NoneWereRequested it panics.                                            *)
C27_ShrinkToFitClamps ==
    /\ fit.state = "panicked" => box = NoneWereRequested
    /\ (fit.state # "not called" /\ box = NoneWereRequested) => fit.state = "panicked"
    /\ fit.state = "returned" =>
          /\ box.tag = "Inline"
          /\ box.min_content <= box.max_content =>
                /\ box.min_content <= fit.value /\ fit.value <= box.max_content
                /\ available_size < box.min_content => fit.value = box.min_content
                /\ available_size > box.max_content => fit.value = box.max_content
          /\ (box.min_content <= available_size /\ available_size <= box.max_content) =>
                fit.value = available_size
          /\ box.min_content > box.max_content => fit.value = box.max_content

C27_Witness ==
    /\ fit.state = "returned"
    /\ box = Inline(2, 1)
    /\ available_size = 3
    /\ fit.value = 1
====
